---- MODULE Spec2Model ----
(***************************************************************************)
(* Drone vibration analysis (src/app.py): one Streamlit script run loads   *)
(* an uploaded CSV into session state (Section 1), computes the one-sided  *)
(* amplitude spectrum and its peak (Section 2) and maps the peak frequency *)
(* to a health status (Section 4).                                         *)
(*                                                                         *)
(* Number representation.  Python floats are carried as scaled integers or *)
(* exact rationals:                                                        *)
(*   - a CSV field v is the integer ValueScale * v (0.25 g is 25);         *)
(*   - times are in 1/TimeScale s (T = 0.01 s is 10);                      *)
(*   - spectral amplitudes are in 1/AmpScale g (0.5 g is 500);             *)
(*   - a frequency is the exact rational [num, den] in Hz.                 *)
(* The DFT is computed in fixed point (twiddle factors scaled by CosScale): *)
(* halved while the length is even, summed directly when it is odd.        *)
(***************************************************************************)
EXTENDS Integers, Sequences, FiniteSets, TLC

VARIABLES
    uploaded_file,   \* st.file_uploader's value in this run: None or <<file>>
    session_state,   \* st.session_state: a record whose keys appear as set
    pc,              \* position of the script run
    load_error,      \* Section 1's except branch ran in this run (st.error)
    final_freq,      \* Section 2 locals of this run
    final_amp,
    peak_idx,
    peak_freq,
    peak_mag,
    status,          \* the banner Section 4 rendered in this run
    stored_from,     \* history: the file session_state.df was built from
    session_before   \* history: session_state when this run started

vars == <<uploaded_file, session_state, pc, load_error, final_freq, final_amp,
          peak_idx, peak_freq, peak_mag, status, stored_from, session_before>>

None == <<>>
Some(v) == <<v>>
Unbound == -1

\* ------------------------------------------------------------------------
\* Units and program constants
\* ------------------------------------------------------------------------
ValueScale == 100
TimeScale == 1000
AmpScale == 1000
CosScale == 10000
PiScaled == 31416
TaylorTerms == 7
IsqrtMax == 46340

MaxSamples == 1024
T_interval == 10
NormalMaxHz == 5
PropMaxHz == 10
ShaftMaxHz == 20

\* The amplitude floor of the reference policy, 0.2 g.
AmplitudeFloor == AmpScale \div 5

\* ------------------------------------------------------------------------
\* Bounds of the model
\* ------------------------------------------------------------------------
MaxRows == 6      \* short inputs have 0..MaxRows data rows
ExtraRows == 1    \* long inputs have MaxSamples..MaxSamples+ExtraRows rows
MaxTone == 5      \* tone inputs put their energy in bin 1..MaxTone

\* ------------------------------------------------------------------------
\* Arithmetic
\* ------------------------------------------------------------------------
Min(a, b) == IF a <= b THEN a ELSE b

RoundDiv(a, b) ==
    IF a >= 0 THEN (2 * a + b) \div (2 * b)
    ELSE -((2 * (-a) + b) \div (2 * b))

RECURSIVE CosTaylor(_, _, _, _)
CosTaylor(x2, term, n, acc) ==
    IF n > TaylorTerms THEN acc
    ELSE LET t == -RoundDiv(RoundDiv(term * x2, CosScale), (2 * n - 1) * (2 * n))
         IN  CosTaylor(x2, t, n + 1, acc + t)

\* CosScale * cos(pi * p / q) for 0 <= p <= q / 2
CosFirstQuadrant(p, q) ==
    IF p = 0 THEN CosScale
    ELSE IF 2 * p = q THEN 0
    ELSE LET x  == RoundDiv(PiScaled * p, q)
             x2 == RoundDiv(x * x, CosScale)
         IN  CosTaylor(x2, CosScale, 1, CosScale)

\* CosScale * cos(pi * p / q) for any integer p and q > 0
CosPi(p, q) ==
    LET r == p % (2 * q)
        s == IF r > q THEN 2 * q - r ELSE r
    IN  IF 2 * s > q THEN -CosFirstQuadrant(q - s, q) ELSE CosFirstQuadrant(s, q)

\* Twiddle tables: entry j + 1 is cos, sin of 2 * pi * j / N
CosTab(N) == SubSeq([j \in 1..N |-> CosPi(2 * (j - 1), N)], 1, N)
SinTab(N) == SubSeq([j \in 1..N |-> CosPi(4 * (j - 1) - N, 2 * N)], 1, N)

\* (v * tw) / CosScale without leaving 32 bits, for |tw| <= CosScale
MulScaled(v, tw) ==
    (v \div CosScale) * tw + RoundDiv((v % CosScale) * tw, CosScale)

\* Sum over n = lo..hi of v[n] * W^(k (n - 1)), W = exp(-2 pi i / M); the
\* twiddle tables ct, st have N entries and M divides N.
RECURSIVE DirectSum(_, _, _, _, _, _, _, _)
DirectSum(v, ct, st, N, M, k, lo, hi) ==
    IF lo = hi
    THEN LET j == (((k * (lo - 1)) % M) * (N \div M)) + 1
         IN  [re |-> MulScaled(v.re[lo], ct[j]) + MulScaled(v.im[lo], st[j]),
              im |-> MulScaled(v.im[lo], ct[j]) - MulScaled(v.re[lo], st[j])]
    ELSE LET mid == (lo + hi) \div 2
             l   == DirectSum(v, ct, st, N, M, k, lo, mid)
             r   == DirectSum(v, ct, st, N, M, k, mid + 1, hi)
         IN  [re |-> l.re + r.re, im |-> l.im + r.im]

\* The discrete Fourier transform of the M points v: halved (decimation in
\* time) while M is even, summed directly when M is odd.
RECURSIVE FFT(_, _, _, _, _)
FFT(v, ct, st, N, M) ==
    IF M % 2 = 1
    THEN LET X == [k1 \in 1..M |-> DirectSum(v, ct, st, N, M, k1 - 1, 1, M)]
         IN  [re |-> SubSeq([k1 \in 1..M |-> X[k1].re], 1, M),
              im |-> SubSeq([k1 \in 1..M |-> X[k1].im], 1, M)]
    ELSE LET h  == M \div 2
             ev == [re |-> SubSeq([i \in 1..h |-> v.re[2 * i - 1]], 1, h),
                    im |-> SubSeq([i \in 1..h |-> v.im[2 * i - 1]], 1, h)]
             od == [re |-> SubSeq([i \in 1..h |-> v.re[2 * i]], 1, h),
                    im |-> SubSeq([i \in 1..h |-> v.im[2 * i]], 1, h)]
             E  == FFT(ev, ct, st, N, h)
             O  == FFT(od, ct, st, N, h)
             tr == SubSeq([k1 \in 1..h |->
                      LET j == ((k1 - 1) * (N \div M)) + 1
                      IN  MulScaled(O.re[k1], ct[j]) + MulScaled(O.im[k1], st[j])],
                      1, h)
             ti == SubSeq([k1 \in 1..h |->
                      LET j == ((k1 - 1) * (N \div M)) + 1
                      IN  MulScaled(O.im[k1], ct[j]) - MulScaled(O.re[k1], st[j])],
                      1, h)
         IN  [re |-> SubSeq([k1 \in 1..M |->
                        IF k1 <= h THEN E.re[k1] + tr[k1]
                        ELSE E.re[k1 - h] - tr[k1 - h]], 1, M),
              im |-> SubSeq([k1 \in 1..M |->
                        IF k1 <= h THEN E.im[k1] + ti[k1]
                        ELSE E.im[k1 - h] - ti[k1 - h]], 1, M)]

\* np.fft.fft of the real series x of N >= 1 points, scaled by CosScale
fft(x, N) ==
    FFT([re |-> SubSeq([n \in 1..N |-> x[n] * CosScale], 1, N),
         im |-> SubSeq([n \in 1..N |-> 0], 1, N)],
        CosTab(N), SinTab(N), N, N)

RECURSIVE IsqrtIter(_, _, _)
IsqrtIter(v, lo, hi) ==
    IF lo >= hi THEN lo
    ELSE LET mid == (lo + hi + 1) \div 2
         IN  IF mid * mid <= v THEN IsqrtIter(v, mid, hi)
             ELSE IsqrtIter(v, lo, mid - 1)

Isqrt(v) == IsqrtIter(v, 0, IsqrtMax)

\* ------------------------------------------------------------------------
\* Uploaded files
\* ------------------------------------------------------------------------
\* A file is described by its column count, its number of data rows (after
\* the header line pandas consumes), the acceleration signal it carries and
\* the column, if any, that holds a non-numeric field.
\*   kind "tone":    accel[n] = amp * cos(2 * pi * tone * n / period)
\*   kind "impulse": accel[0] = amp, accel[n] = 0 otherwise
MkFile(c, r, kd, a, k0, p, t) ==
    [cols |-> c, rows |-> r, kind |-> kd, amp |-> a, tone |-> k0,
     period |-> p, text |-> t]

AccelValue(f, n) ==
    IF f.kind = "impulse" THEN (IF n = 0 THEN f.amp ELSE 0)
    ELSE RoundDiv(f.amp * CosPi(2 * f.tone * n, f.period), CosScale)

\* Raw sensor count: 3 counts at rest, 1 count per 0.1 g
RawValue(f, n) == ValueScale * (3 + RoundDiv(AccelValue(f, n), 10))

Series(f, name) ==
    [vals    |-> SubSeq([n \in 1..f.rows |->
                    CASE name = "index" -> ValueScale * (n - 1)
                      [] name = "time"  ->
                            (ValueScale * (n - 1) * T_interval) \div TimeScale
                      [] name = "raw"   -> RawValue(f, n - 1)
                      [] OTHER          -> AccelValue(f, n - 1)], 1, f.rows),
     numeric |-> f.text # name]

\* The column layouts of the inputs, by column count
Layout(c) ==
    CASE c = 0 -> <<>>
      [] c = 1 -> <<"accel">>
      [] c = 2 -> <<"raw", "accel">>
      [] c = 3 -> <<"time", "raw", "accel">>
      [] OTHER -> <<"index", "time", "raw", "accel">>

AccelColumn(f) == Series(f, "accel")


\* Short two-column inputs: all-zero, constant, one cycle, impulse
ShortFiles ==
    {MkFile(2, r, "tone", 0, 0, 1, "none") : r \in 0..MaxRows}
    \cup {MkFile(2, r, "tone", a, 0, 1, "none") : r \in 0..MaxRows, a \in {10, 50}}
    \cup {MkFile(2, r, "tone", a, 1, r, "none") : r \in 2..MaxRows, a \in {10, 50}}
    \cup {MkFile(2, r, "impulse", a, 0, 1, "none") : r \in 1..MaxRows, a \in {10, 50}}

\* Two-column inputs whose bin 1 lies on the 5 Hz edge (20 rows at 100 Hz),
\* carrying a tone in bin 1..MaxTone or an impulse (all bins equal), and one
\* row fewer (bin 1 above 5 Hz)
ToneRows == (TimeScale \div T_interval) \div NormalMaxHz

ToneFiles ==
    {MkFile(2, ToneRows, "tone", a, k0, ToneRows, "none") :
        k0 \in 1..MaxTone, a \in {10, 50}}
    \cup {MkFile(2, ToneRows - 1, "tone", a, 1, ToneRows - 1, "none") : a \in {10, 50}}
    \cup {MkFile(2, ToneRows, "impulse", a, 0, 1, "none") : a \in {10, 50}}

\* Inputs of the other layouts, and the empty file
LayoutFiles ==
    {MkFile(c, r, "tone", 50, 1, r, "none") : c \in {1, 3, 4}, r \in {2, 4}}
    \cup {MkFile(0, 0, "tone", 0, 0, 1, "none")}

\* Two-column inputs with a non-numeric field in one column
TextFiles == {MkFile(2, 4, "tone", 50, 1, 4, t) : t \in {"raw", "accel"}}

\* Inputs of MaxSamples rows and more, with a tone in the first bin above 5 Hz
LongTone == (NormalMaxHz * MaxSamples * T_interval) \div TimeScale + 1

LongFiles ==
    {MkFile(2, MaxSamples + e, "tone", 30, LongTone, MaxSamples, "none") :
        e \in 0..ExtraRows}

Files == ShortFiles \cup ToneFiles \cup LayoutFiles \cup TextFiles
LongCatalog ==
    LongFiles \cup TextFiles \cup {f \in LayoutFiles : f.rows # 4}
    \cup {f \in ShortFiles : f.rows = 2 /\ f.kind = "impulse"}

\* ------------------------------------------------------------------------
\* Section 1: loader
\* ------------------------------------------------------------------------
\* pd.read_csv: the columns of the file, in file order
read_csv(f) == [i \in 1..f.cols |-> Series(f, Layout(f.cols)[i])]

\* pd.read_csv raises EmptyDataError on a file without columns; iloc[:, 1]
\* raises IndexError on a single-column frame.  Both are caught at line 218.
LoadRaises(f) == f.cols = 0 \/ f.cols < 2

LoaderRaw(df_raw) == df_raw[1]

LoaderAccelLast(df_raw) == df_raw[Len(df_raw)]

LoaderAccel(df_raw) == df_raw[2]

head_all(col) == col

head(col) ==
    IF Len(col.vals) > MaxSamples
    THEN [col EXCEPT !.vals = SubSeq(col.vals, 1, MaxSamples)]
    ELSE col

BuildFrame(df_raw) ==
    LET raw   == head(LoaderRaw(df_raw))
        accel == head(LoaderAccel(df_raw))
        len   == Len(raw.vals)
        index == SubSeq([i \in 1..len |-> i - 1], 1, len)
    IN  [Index |-> index,
         Time  |-> SubSeq([i \in 1..len |-> index[i] * T_interval], 1, len),
         Raw   |-> raw,
         Accel |-> accel]

Store(df) ==
    [df   |-> Some(df),
     N    |-> Len(df.Index),
     T    |-> T_interval,
     rate |-> TimeScale \div T_interval]

OnLoadExceptionClear(ss) == [df |-> None]

OnLoadException(ss) == ss

HasFrame(ss) == ss.df # None


\* ------------------------------------------------------------------------
\* Section 2: spectrum and peak
\* ------------------------------------------------------------------------
\* np.fft.fft raises on a non-numeric (object) series and on zero points.
FFTRaises(accel) == ~accel.numeric \/ Len(accel.vals) = 0

HalfNCeil(N) == (N + 1) \div 2

HalfN(N) == N \div 2

\* Bins 0..count-1 of np.abs(dft_coeffs) * (2.0 / N), in 1/AmpScale g; both
\* parts of a coefficient are scaled by 2 / N before the modulus is taken.
SpectralAmplitude(dft_coeffs, N, count) ==
    LET scale == (ValueScale * CosScale * N) \div (2 * AmpScale)
    IN  SubSeq([k1 \in 1..count |->
                  LET re == RoundDiv(dft_coeffs.re[k1], scale)
                      im == RoundDiv(dft_coeffs.im[k1], scale)
                  IN  Isqrt(re * re + im * im)], 1, count)

\* Bins 0..count-1 of k_indices * (1.0 / (N * T)), in Hz
FrequencyHz(N, T, count) ==
    SubSeq([k1 \in 1..count |-> [num |-> (k1 - 1) * TimeScale, den |-> N * T]],
           1, count)

\* final_amp[0] = 0 raises IndexError on an empty slice.
ZeroDCRaises(amp) == Len(amp) = 0

ZeroDCSkip(amp) == amp

ZeroDC(amp) == [amp EXCEPT ![1] = 0]

\* np.argmax: the 0-based index of the first occurrence of the maximum.
\* The scan is split in halves; the left half wins ties.
RECURSIVE ArgMaxRange(_, _, _)
ArgMaxRange(amp, lo, hi) ==
    IF lo = hi THEN lo
    ELSE LET mid == (lo + hi) \div 2
             l   == ArgMaxRange(amp, lo, mid)
             r   == ArgMaxRange(amp, mid + 1, hi)
         IN  IF amp[r] > amp[l] THEN r ELSE l

RECURSIVE ArgMaxLastRange(_, _, _)
ArgMaxLastRange(amp, lo, hi) ==
    IF lo = hi THEN lo
    ELSE LET mid == (lo + hi) \div 2
             l   == ArgMaxLastRange(amp, lo, mid)
             r   == ArgMaxLastRange(amp, mid + 1, hi)
         IN  IF amp[r] >= amp[l] THEN r ELSE l

ArgMaxLast(amp) == ArgMaxLastRange(amp, 1, Len(amp)) - 1

ArgMax(amp) == ArgMaxRange(amp, 1, Len(amp)) - 1

\* ------------------------------------------------------------------------
\* Section 4: diagnosis
\* ------------------------------------------------------------------------
\* f <= h for a frequency f and a whole number of Hz h
FreqLeq(f, h) == f.num <= h * f.den

FreqLt(f, h) == f.num < h * f.den

ClassifyOpenEdges(f) ==
    IF FreqLt(f, NormalMaxHz) THEN "NORMAL"
    ELSE IF FreqLt(f, PropMaxHz) THEN "PROP_IMBALANCE"
    ELSE IF FreqLt(f, ShaftMaxHz) THEN "SHAFT_ISSUE"
    ELSE "BEARING_FAILURE"

Classify(f) ==
    IF FreqLeq(f, NormalMaxHz) THEN "NORMAL"
    ELSE IF ~FreqLeq(f, NormalMaxHz) /\ FreqLeq(f, PropMaxHz) THEN "PROP_IMBALANCE"
    ELSE IF ~FreqLeq(f, PropMaxHz) /\ FreqLeq(f, ShaftMaxHz) THEN "SHAFT_ISSUE"
    ELSE "BEARING_FAILURE"


\* ------------------------------------------------------------------------
\* The script run
\* ------------------------------------------------------------------------
NoFreq == [num |-> Unbound, den |-> 1]

Init ==
    /\ uploaded_file = None
    /\ session_state = [df |-> None]
    /\ pc = "idle"
    /\ load_error = FALSE
    /\ final_freq = <<>>
    /\ final_amp = <<>>
    /\ peak_idx = Unbound
    /\ peak_freq = NoFreq
    /\ peak_mag = Unbound
    /\ status = "NO_DIAGNOSIS"
    /\ stored_from = None
    /\ session_before = [df |-> None]

\* A widget interaction starts a script run: the uploader holds file `up`
\* (or nothing), the script's locals are fresh, session state is kept.
Rerun(up) ==
    /\ pc \in {"idle", "done", "crashed"}
    /\ uploaded_file' = up
    /\ pc' = "sec1"
    /\ load_error' = FALSE
    /\ final_freq' = <<>>
    /\ final_amp' = <<>>
    /\ peak_idx' = Unbound
    /\ peak_freq' = NoFreq
    /\ peak_mag' = Unbound
    /\ status' = "NO_DIAGNOSIS"
    /\ session_before' = session_state
    /\ UNCHANGED <<session_state, stored_from>>

Section1 ==
    /\ pc = "sec1"
    /\ IF uploaded_file = None
       THEN UNCHANGED <<session_state, stored_from, load_error>>
       ELSE LET f == uploaded_file[1]
            IN  IF LoadRaises(f)
                THEN /\ session_state' = OnLoadException(session_state)
                     /\ load_error' = TRUE
                     /\ UNCHANGED stored_from
                ELSE /\ session_state' = Store(BuildFrame(read_csv(f)))
                     /\ stored_from' = uploaded_file
                     /\ UNCHANGED load_error
    /\ pc' = "sec2"
    /\ UNCHANGED <<uploaded_file, final_freq, final_amp, peak_idx, peak_freq,
                   peak_mag, status, session_before>>

Section2 ==
    /\ pc = "sec2"
    /\ IF ~HasFrame(session_state)
       THEN /\ pc' = "sec4"
            /\ UNCHANGED <<final_freq, final_amp, peak_idx, peak_freq, peak_mag>>
       ELSE LET df     == session_state.df[1]
                N      == session_state.N
                T      == session_state.T
                half_N == HalfN(N)
            IN  IF FFTRaises(df.Accel)
                THEN /\ pc' = "crashed"
                     /\ UNCHANGED <<final_freq, final_amp, peak_idx, peak_freq,
                                    peak_mag>>
                ELSE LET freq  == FrequencyHz(N, T, half_N)
                         slice == SpectralAmplitude(fft(df.Accel.vals, N), N, half_N)
                     IN  IF ZeroDCRaises(slice)
                         THEN /\ pc' = "crashed"
                              /\ final_freq' = freq
                              /\ final_amp' = slice
                              /\ UNCHANGED <<peak_idx, peak_freq, peak_mag>>
                         ELSE LET amp == ZeroDC(slice)
                                  idx == ArgMax(amp)
                              IN  /\ final_freq' = freq
                                  /\ final_amp' = amp
                                  /\ peak_idx' = idx
                                  /\ peak_freq' = freq[idx + 1]
                                  /\ peak_mag' = amp[idx + 1]
                                  /\ pc' = "sec4"
    /\ UNCHANGED <<uploaded_file, session_state, load_error, status, stored_from,
                   session_before>>

Section4 ==
    /\ pc = "sec4"
    /\ status' = IF HasFrame(session_state) THEN Classify(peak_freq)
                 ELSE "NO_DIAGNOSIS"
    /\ pc' = "done"
    /\ UNCHANGED <<uploaded_file, session_state, load_error, final_freq,
                   final_amp, peak_idx, peak_freq, peak_mag, stored_from,
                   session_before>>

Next ==
    \/ \E up \in {None} \cup {Some(f) : f \in Files} : Rerun(up)
    \/ Section1
    \/ Section2
    \/ Section4

Spec == Init /\ [][Next]_vars

\* The same script fed inputs of MaxSamples rows and more
NextLong ==
    \/ \E up \in {None} \cup {Some(f) : f \in LongCatalog} : Rerun(up)
    \/ Section1
    \/ Section2
    \/ Section4

SpecLong == Init /\ [][NextLong]_vars


\* ------------------------------------------------------------------------
\* Properties
\* ------------------------------------------------------------------------
\* Section 2 has produced this run's spectrum and peak
Analysed == pc \in {"sec4", "done"} /\ HasFrame(session_state)

\* Section 4 has rendered a diagnosis in this run
Diagnosed == pc = "done" /\ status # "NO_DIAGNOSIS"

\* The first min(rows, MaxSamples) entries of a column, in order
FirstRows(col) ==
    [col EXCEPT !.vals = SubSeq(col.vals, 1, Min(Len(col.vals), MaxSamples))]

RECURSIVE SumRange(_, _, _)
SumRange(x, lo, hi) ==
    IF lo > hi THEN 0
    ELSE IF lo = hi THEN x[lo]
    ELSE LET mid == (lo + hi) \div 2
         IN  SumRange(x, lo, mid) + SumRange(x, mid + 1, hi)

\* C1: a peak at or above the amplitude floor gets exactly one category,
\* fixed by its frequency alone: NORMAL for f <= 5 Hz, PROP_IMBALANCE for
\* 5 < f <= 10, SHAFT_ISSUE for 10 < f <= 20, BEARING_FAILURE for f > 20;
\* the upper edges are closed and no peak is left without a category.
C1_Bands ==
    (pc = "done" /\ HasFrame(session_state) /\ peak_mag >= AmplitudeFloor) =>
        LET n == peak_freq.num
            d == peak_freq.den
        IN  /\ status \in {"NORMAL", "PROP_IMBALANCE", "SHAFT_ISSUE",
                           "BEARING_FAILURE"}
            /\ (status = "NORMAL") <=> (n <= 5 * d)
            /\ (status = "PROP_IMBALANCE") <=> (5 * d < n /\ n <= 10 * d)
            /\ (status = "SHAFT_ISSUE") <=> (10 * d < n /\ n <= 20 * d)
            /\ (status = "BEARING_FAILURE") <=> (20 * d < n)

\* A peak of at least 0.2 g at exactly 10 Hz, diagnosed PROP_IMBALANCE
C1_Witness ==
    /\ pc = "done"
    /\ HasFrame(session_state)
    /\ peak_mag >= AmplitudeFloor
    /\ peak_freq.num = 10 * peak_freq.den
    /\ status = "PROP_IMBALANCE"

\* C2: a peak below the amplitude floor (0.2 g) is diagnosed NORMAL whatever
\* its frequency.
C2_AmplitudeFloor ==
    (Diagnosed /\ peak_mag < AmplitudeFloor) => status = "NORMAL"

\* C3 as stated: the acceleration series of the stored waveform is the
\* acceleration column of the input's layout, for 2, 3 and 4 columns.
C3_LayoutAccel ==
    HasFrame(session_state) =>
        LET f == stored_from[1]
        IN  f.cols \in {2, 3, 4} =>
                session_state.df[1].Accel = FirstRows(AccelColumn(f))

\* C3 amended: whatever the column count (at least 2), the acceleration
\* series is the input's second column and the raw series its first; that
\* is the layout's acceleration column for a two-column input.
C3_SecondColumn ==
    HasFrame(session_state) =>
        LET f  == stored_from[1]
            df == session_state.df[1]
        IN  /\ f.cols >= 2
            /\ df.Accel = FirstRows(Series(f, Layout(f.cols)[2]))
            /\ df.Raw = FirstRows(Series(f, Layout(f.cols)[1]))
            /\ f.cols = 2 => df.Accel = FirstRows(AccelColumn(f))

\* A three-column input stored with its raw-count column as acceleration
C3_Witness ==
    /\ HasFrame(session_state)
    /\ stored_from[1].cols = 3
    /\ session_state.df[1].Accel = FirstRows(Series(stored_from[1], "raw"))
    /\ session_state.df[1].Accel # FirstRows(AccelColumn(stored_from[1]))

\* C4: the stored waveform is the first min(R, 1024) rows of the input in
\* their order; N equals the number of samples, is at most 1024, and T > 0.
C4_Truncation ==
    HasFrame(session_state) =>
        LET f  == stored_from[1]
            df == session_state.df[1]
            n  == Min(f.rows, MaxSamples)
        IN  /\ df.Accel.vals = SubSeq(Series(f, Layout(f.cols)[2]).vals, 1, n)
            /\ df.Raw.vals = SubSeq(Series(f, Layout(f.cols)[1]).vals, 1, n)
            /\ Len(df.Index) = n
            /\ Len(df.Time) = n
            /\ \A i \in 1..n : df.Index[i] = i - 1
            /\ session_state.N = n
            /\ session_state.N = Len(df.Accel.vals)
            /\ session_state.N <= MaxSamples
            /\ session_state.T > 0

\* An input of more than 1024 rows stored as 1024 samples
C4_Witness ==
    /\ HasFrame(session_state)
    /\ stored_from[1].rows > MaxSamples
    /\ session_state.N = MaxSamples
    /\ pc = "done"

\* C5: an input of fewer than 2 rows is rejected by the loader, so the
\* analysis never runs on a waveform of fewer than 2 samples.
C5_TooFewRejected ==
    (pc = "sec2" /\ HasFrame(session_state)) => session_state.N >= 2

\* C6: when the processing of an uploaded file fails, session state is what
\* it was before the upload; a waveform is stored only if the run goes on to
\* produce a diagnosis from it.
C6_NoPartialResults ==
    /\ (uploaded_file # None /\ (load_error \/ pc = "crashed")) =>
            session_state = session_before
    /\ (pc \in {"done", "crashed"} /\ session_state # session_before) =>
            status # "NO_DIAGNOSIS"

\* C7 as stated: a diagnosis produced in a run is derived from the file
\* uploaded in that run, never from a waveform an earlier file left behind.
C7_OnlyThisRunsFile ==
    Diagnosed =>
        /\ uploaded_file # None
        /\ ~load_error
        /\ stored_from = uploaded_file

\* C7 amended: a run that completes analyses the waveform held in session
\* state: that of the run's file when its load succeeded, and otherwise
\* (uploader empty, or load failed) the unchanged waveform of the last
\* successful load, which is diagnosed again.
C7_SessionWaveform ==
    pc = "done" =>
        /\ (uploaded_file # None /\ ~load_error) => stored_from = uploaded_file
        /\ (uploaded_file = None \/ load_error) =>
                /\ session_state = session_before
                /\ HasFrame(session_before) => status # "NO_DIAGNOSIS"
        /\ status # "NO_DIAGNOSIS" =>
                /\ HasFrame(session_state)
                /\ Len(final_amp) = session_state.N \div 2
                /\ peak_freq.den = session_state.N * session_state.T

\* A run whose load failed and which diagnosed the earlier file's waveform
C7_Witness ==
    /\ Diagnosed
    /\ load_error
    /\ stored_from # uploaded_file

\* C8: the spectrum of a valid waveform has N // 2 bins, frequencies and
\* magnitudes of equal length, bin k at k / (N * T) Hz, strictly ascending
\* from 0, and magnitude 0 in bin 0.
C8_SpectrumShape ==
    Analysed =>
        LET N == session_state.N
            T == session_state.T
        IN  /\ Len(final_freq) = N \div 2
            /\ Len(final_amp) = Len(final_freq)
            /\ \A k \in 1..Len(final_freq) :
                    /\ final_freq[k].den > 0
                    /\ final_freq[k].num * (N * T) =
                            (k - 1) * TimeScale * final_freq[k].den
            /\ \A k \in 1..(Len(final_freq) - 1) :
                    final_freq[k].num * final_freq[k + 1].den <
                        final_freq[k + 1].num * final_freq[k].den
            /\ final_freq[1].num = 0
            /\ final_amp[1] = 0

\* A spectrum of several bins of a waveform whose mean is not zero
C8_Witness ==
    /\ Analysed
    /\ Len(final_amp) >= 2
    /\ SumRange(session_state.df[1].Accel.vals, 1, session_state.N) # 0
    /\ final_amp[1] = 0

\* C9: the peak is (frequencies[i], magnitudes[i]) for the lowest index i
\* at which the magnitude is the maximum over all bins.
C9_ArgMaxFirst ==
    Analysed =>
        /\ peak_idx \in 0..(Len(final_amp) - 1)
        /\ peak_freq = final_freq[peak_idx + 1]
        /\ peak_mag = final_amp[peak_idx + 1]
        /\ \A j \in 1..Len(final_amp) : final_amp[j] <= peak_mag
        /\ \A j \in 1..peak_idx : final_amp[j] < peak_mag

\* A spectrum whose maximum is attained by more than one bin
C9_Witness ==
    /\ Analysed
    /\ peak_mag > 0
    /\ \E j \in (peak_idx + 2)..Len(final_amp) : final_amp[j] = peak_mag

\* C10 as stated: the peak index is at least 1 and the peak frequency is
\* above 0 Hz for every waveform of at least 2 samples.
C10_NeverDC ==
    Analysed => (peak_idx >= 1 /\ peak_freq.num > 0)

\* C10 amended: bin 0 is the peak exactly when no bin has a positive
\* magnitude; the peak is then 0 Hz with magnitude 0 and is diagnosed
\* NORMAL.  Otherwise the peak index is at least 1 and its frequency and
\* magnitude are positive.
C10_DCOnlyWhenFlat ==
    Analysed =>
        /\ (peak_idx = 0) <=> (\A j \in 1..Len(final_amp) : final_amp[j] = 0)
        /\ peak_idx = 0 =>
                /\ peak_mag = 0
                /\ peak_freq.num = 0
                /\ pc = "done" => status = "NORMAL"
        /\ peak_idx # 0 =>
                /\ peak_idx >= 1
                /\ peak_freq.num > 0
                /\ peak_mag > 0

\* A three-sample waveform that is not all zero, whose only bin is bin 0
C10_Witness ==
    /\ pc = "done"
    /\ HasFrame(session_state)
    /\ session_state.N = 3
    /\ \E i \in 1..3 : session_state.df[1].Accel.vals[i] # 0
    /\ peak_idx = 0
    /\ status = "NORMAL"

====
